---- MODULE Spec2Model ----
(***************************************************************************)
(* A model of napi/src/env.rs: the tagged object store (wrap, unwrap,      *)
(* drop_wrapped, create_external, get_value_external, instance data), the  *)
(* finalizers raw_finalize and drop_buffer, the buffer constructors, and   *)
(* the asynchronous bridge (execute_tokio_future, threadsafe functions,    *)
(* spawn).                                                                 *)
(*                                                                         *)
(* The host (the N-API implementation) is the environment: a boundary call *)
(* returns a status, and the host runs a registered finalizer once, when   *)
(* it collects the value the finalizer was registered for.                 *)
(***************************************************************************)
EXTENDS Integers, Sequences, FiniteSets, TLC

\* ------------------------------------------------------------------ bounds

\* Native payload values are 0..MaxVal.
MaxVal == 1
\* Size hints given to create_external are 1..MaxHint.
MaxHint == 1
\* Buffers hold at most MaxLen bytes, and at most MaxBufs of them are created.
MaxLen == 3
MaxBufs == 1
\* The bounded queue to the tokio runtime holds at most QueueCap messages, and
\* at most MaxFutures futures are submitted.
QueueCap == 2
MaxFutures == 3
\* A threadsafe function is created with a queue size of 1..MaxQueue, and each
\* producer thread enqueues at most MaxSend payloads.
MaxQueue == 2
MaxSend == 2
\* At most MaxTasks tasks are spawned, on inputs 0..MaxInput.
MaxTasks == 2
MaxInput == 2
\* The 64-bit words of a BigInt are scaled to WordBits bits, and the 128-bit
\* integers to two such words.
WordBits == 2
MaxWords == 2
MaxRefs == 2
MaxHooks == 2
\* run_in_scope is called at most MaxCalls times, nested at most MaxDepth deep.
MaxCalls == 3
MaxDepth == 2

\* ------------------------------------------------------------- value space

\* std::any::TypeId of the two native types the callers use.
TypeIds == {"T", "U"}
Val == 0..MaxVal
SizeHints == 1..MaxHint

\* The host values of the tagged object store: one JS object that may be
\* wrapped, one JsExternal that may be created.
Objs == {"o1"}
Exts == {"e1"}
Cells == Objs \cup Exts

\* Option<T>.
None == [some |-> FALSE, val |-> 0]
Some(v) == [some |-> TRUE, val |-> v]
OptionOf(S) == {None} \cup {Some(v) : v \in S}

\* The finalize_hint pointer handed to the host: null (wrap) or a
\* Box<Option<i64>> (create_external).
NullHint == [null |-> TRUE, opt |-> None]
HintBox(opt) == [null |-> FALSE, opt |-> opt]

\* Result<&mut T>, Result<()>: the status, the reason and the view returned.
OkView(v) == [status |-> "Ok", reason |-> "", view |-> Some(v)]
OkUnit == [status |-> "Ok", reason |-> "", view |-> None]
Err(s, why) == [status |-> s, reason |-> why, view |-> None]

\* A host value's TaggedObject: st is "none" (nothing attached yet), "live"
\* (the allocation is owned by the host) or "finalized" (the host collected
\* the value and ran its finalizer).
NoCell == [st |-> "none", tag |-> "T", object |-> None, hint |-> NullHint]
GoneCell == [st |-> "finalized", tag |-> "T", object |-> None, hint |-> NullHint]
\* TaggedObject::new(native_object) boxed and handed to the host.
TaggedObjectNew(T, v, hint) ==
  [st |-> "live", tag |-> T, object |-> Some(v), hint |-> hint]

VARIABLES
  cell,      \* Cells -> the TaggedObject attached to the host value
  dtor,      \* Cells -> how many times the native value's destructor ran
  boxFree,   \* Cells -> how many times the TaggedObject allocation was freed
  extMem,    \* the host's external-memory accounting (net adjustment)
  inst,      \* the instance-data slot: NoCell or a live TaggedObject
  hist,      \* Objs -> what wrap, the writes and drop_wrapped told the callers
  last,      \* the last call and its result
  bufs,      \* the host buffers created, in creation order
  lastBuf,   \* the last buffer call and its status
  tq,        \* the messages in the queue to the tokio runtime (future ids)
  tclosed,   \* whether the queue's receiving end has been torn down
  tnext,     \* the id of the next future submitted
  tprom,     \* future id -> its promise, deferred and callback handle in the host
  tran,      \* the futures the runtime has run
  tlast,     \* the last execute_tokio_future call and its result
  fmax,      \* the threadsafe function's max_queue_size (0: not created yet)
  fq,        \* the payloads queued on the threadsafe function
  fclosed,   \* whether the host has torn the threadsafe function down
  sent,      \* producer -> how many payloads it has tried to enqueue
  accepted,  \* the payloads whose enqueue succeeded, in that order
  rejected,  \* the payloads whose enqueue failed
  delivered, \* the payloads handed to the host callback, in that order
  task,      \* task id -> the task's progress and its promise
  bigLast,   \* the last BigInt creation: its input and the host's BigInt
  refs,      \* the references created: the value's type and the two counts
  refLast,   \* the last call on a reference and its result
  instSet,   \* what the latest successful set_instance_data was given
  instRuns,  \* the finalize callbacks of instance data run, in order
  envDown,   \* whether the host has torn the environment down
  hooks,     \* the cleanup hooks given to add_env_cleanup_hook, in call order
  hooksDown, \* whether the host has begun to run the cleanup hooks
  hookLast,  \* the last call on a cleanup hook and its status
  symLast,   \* the last create_string / create_symbol call and its result
  fatalLast, \* the last fatal_exception call and the boundary calls it made
  scopes,    \* the number of handle scopes open in the host
  stack,     \* the run_in_scope calls whose executor is running, outermost first
  scopeCalls,\* how many run_in_scope calls have been made
  closeFails,\* how many napi_close_handle_scope calls have failed
  scopeLast  \* the last run_in_scope call that returned, and its result

storeVars == <<cell, dtor, boxFree, extMem, inst, hist, last>>
bufVars == <<bufs, lastBuf>>
tokioVars == <<tq, tclosed, tnext, tprom, tran, tlast>>
tsfnVars == <<fmax, fq, fclosed, sent, accepted, rejected, delivered>>
taskVars == <<task>>
asyncVars == <<tokioVars, tsfnVars, taskVars>>
bigVars == <<bigLast>>
refVars == <<refs, refLast>>
instVars == <<instSet, instRuns, envDown>>
\* The groups no call on the store touches, and those with the instance data.
hookVars == <<hooks, hooksDown, hookLast>>
callVars == <<symLast, fatalLast, scopes, stack, scopeCalls, closeFails, scopeLast>>
quietVars == <<bigVars, refVars, hookVars, callVars>>
laterVars == <<instVars, quietVars>>
\* What set_instance_data, get_instance_data and the teardown leave alone.
notInst == <<bufVars, asyncVars, quietVars>>
\* The store's variables a buffer call leaves alone.
storeOnly == <<cell, dtor, boxFree, inst, hist, last>>
\* What a call on the store, and a call on a buffer, leave alone.
notStore == <<bufVars, asyncVars, laterVars>>
notBuf == <<storeOnly, asyncVars, laterVars>>
notTokio == <<storeVars, bufVars, tsfnVars, taskVars, laterVars>>
notTsfn == <<storeVars, bufVars, tokioVars, taskVars, laterVars>>
notTask == <<storeVars, bufVars, tokioVars, tsfnVars, laterVars>>
notBig == <<storeVars, bufVars, asyncVars, instVars, refVars, hookVars, callVars>>
notRef == <<storeVars, bufVars, asyncVars, instVars, bigVars, hookVars, callVars>>
notHook == <<storeVars, bufVars, asyncVars, instVars, bigVars, refVars, callVars>>
notCall == <<storeVars, bufVars, asyncVars, instVars, bigVars, refVars, hookVars>>
scopeVars == <<scopes, stack, scopeCalls, closeFails, scopeLast>>

NoHist == [phase |-> "none", tag |-> "T", val |-> 0, written |-> FALSE]
NoCall ==
  [op |-> "none", c |-> "o1", T |-> "T", res |-> OkUnit, pre |-> NoCell,
   unowned |-> 0]
\* pre is the TaggedObject the call found; it is kept for the calls that look
\* at one (the tag-checked reads, drop_wrapped and the finalizer). unowned
\* counts the allocations the call made with Box::into_raw that it neither
\* handed to the host nor took back.
Call(op, c, T, res, pre) ==
  [op |-> op, c |-> c, T |-> T, res |-> res,
   pre |-> IF op \in {"wrap", "write", "create_external", "set_instance_data"}
           THEN NoCell ELSE pre,
   unowned |-> 0]

\* Nothing set yet, and what a set records: the native value's type, the
\* value and the hint.
NoInstSet == [some |-> FALSE, tag |-> "T", val |-> 0, hint |-> 0]
InstSet(T, v, h) == [some |-> TRUE, tag |-> T, val |-> v, hint |-> h]

StoreInit ==
  /\ cell = [c \in Cells |-> NoCell]
  /\ dtor = [c \in Cells |-> 0]
  /\ boxFree = [c \in Cells |-> 0]
  /\ extMem = 0
  /\ inst = NoCell
  /\ hist = [o \in Objs |-> NoHist]
  /\ last = NoCall
  /\ instSet = NoInstSet
  /\ instRuns = <<>>
  /\ envDown = FALSE

\* ------------------------------------------------- the tagged object store

\* Status codes a boundary call can return besides napi_ok.
Failures == {"GenericFailure"}
Statuses == {"Ok"} \cup Failures

\* sys::napi_wrap: the host attaches the pointer to an object that has none,
\* and refuses an object that is already wrapped.
NapiWrapStatus(t) == IF t.st = "none" THEN "Ok" ELSE "InvalidArg"

\* sys::napi_unwrap / sys::napi_get_value_external: the host hands back the
\* pointer it holds for the value, and fails when it holds none.
NapiUnwrapStatus(t) == IF t.st = "live" THEN "Ok" ELSE "InvalidArg"

\* A mutant of UnwrapResult: the payload is read without asking whether the
\* Option still holds it.
UnwrapResultNoPresence(t, T) ==
  IF NapiUnwrapStatus(t) # "Ok" THEN Err(NapiUnwrapStatus(t), "napi_unwrap")
  ELSE IF t.tag = T THEN OkView(t.object.val)
       ELSE Err("InvalidArg", "T on unwrap is not the type of wrapped object")

\* Env::unwrap after the boundary call: compare the stored TypeId with
\* TypeId::of::<T>(), then object.as_mut().ok_or(..).
UnwrapResult(t, T) ==
  IF NapiUnwrapStatus(t) # "Ok" THEN Err(NapiUnwrapStatus(t), "napi_unwrap")
  ELSE IF t.tag = T
       THEN IF t.object.some THEN OkView(t.object.val)
            ELSE Err("InvalidArg", "nothing attach to js_object")
       ELSE Err("InvalidArg", "T on unwrap is not the type of wrapped object")

\* Env::drop_wrapped: its result.
DropWrappedResult(t, T) ==
  IF NapiUnwrapStatus(t) # "Ok" THEN Err(NapiUnwrapStatus(t), "napi_unwrap")
  ELSE IF t.tag = T THEN OkUnit
       ELSE Err("InvalidArg", "T on drop_wrapped is not the type of wrapped object")

\* A mutant of DropWrappedCell: the payload is cleared without the tag check.
DropWrappedCellUnchecked(t, T) ==
  IF NapiUnwrapStatus(t) = "Ok" THEN [t EXCEPT !.object = None] ELSE t

\* Env::drop_wrapped: the TaggedObject it leaves, (*tagged_object).object = None
\* under a matching tag.
DropWrappedCell(t, T) ==
  IF NapiUnwrapStatus(t) = "Ok" /\ t.tag = T THEN [t EXCEPT !.object = None] ELSE t

\* Env::drop_wrapped: the assignment of None drops the value that was there.
DropWrappedDtor(t, T) ==
  IF NapiUnwrapStatus(t) = "Ok" /\ t.tag = T /\ t.object.some THEN 1 ELSE 0

\* A mutant of GetValueExternalResult: the payload is handed out unchecked.
GetValueExternalUnchecked(t, T) ==
  IF NapiUnwrapStatus(t) # "Ok" THEN Err(NapiUnwrapStatus(t), "napi_get_value_external")
  ELSE IF t.object.some THEN OkView(t.object.val)
       ELSE Err("InvalidArg", "nothing attach to js_external")

\* Env::get_value_external.
GetValueExternalResult(t, T) ==
  IF NapiUnwrapStatus(t) # "Ok" THEN Err(NapiUnwrapStatus(t), "napi_get_value_external")
  ELSE IF t.tag = T
       THEN IF t.object.some THEN OkView(t.object.val)
            ELSE Err("InvalidArg", "nothing attach to js_external")
       ELSE Err("InvalidArg", "T on get_value_external is not the type of wrapped object")

\* Env::get_instance_data: Ok(None) for a null pointer, else the tag check.
\* The pointer is the one given to napi_set_instance_data; the TaggedObject is
\* read at its start.
GetInstanceDataResult(t, T) ==
  IF t.st # "live" THEN OkUnit
  ELSE IF t.tag = T
       THEN IF t.object.some THEN OkView(t.object.val)
            ELSE Err("InvalidArg", "nothing attach to js_object")
       ELSE Err("InvalidArg", "T on unwrap is not the type of wrapped object")

\* wrap makes one allocation, the TaggedObject, with Box::into_raw: the host
\* owns it (and raw_finalize frees it) once napi_wrap succeeded; when napi_wrap
\* fails the function returns the error and the raw pointer is gone.
WrapUnowned(s) == IF s = "Ok" THEN 0 ELSE 1

\* create_external makes two, the TaggedObject and the boxed size hint.
CreateExternalUnowned(s1) == IF s1 = "Ok" THEN 0 ELSE 2

\* Env::wrap(js_object, native_object): napi_wrap with a new TaggedObject and
\* raw_finalize::<T>, hint null.
Wrap(o, T, v) ==
  /\ ~envDown
  /\ cell[o].st # "finalized"
  /\ LET s == NapiWrapStatus(cell[o]) IN
     /\ cell' = IF s = "Ok" THEN [cell EXCEPT ![o] = TaggedObjectNew(T, v, NullHint)]
                ELSE cell
     /\ hist' = IF s = "Ok"
                THEN [hist EXCEPT ![o] = [phase |-> "held", tag |-> T, val |-> v,
                                          written |-> FALSE]]
                ELSE hist
     /\ last' = [Call("wrap", o, T,
                       IF s = "Ok" THEN OkUnit ELSE Err(s, "napi_wrap"), cell[o])
                    EXCEPT !.unowned = WrapUnowned(s)]
  /\ UNCHANGED <<dtor, boxFree, extMem, inst, notStore>>

\* Env::unwrap::<T>(js_object).
Unwrap(o, T) ==
  /\ ~envDown
  /\ cell[o].st # "finalized"
  /\ last' = Call("unwrap", o, T, UnwrapResult(cell[o], T), cell[o])
  /\ UNCHANGED <<cell, dtor, boxFree, extMem, inst, hist, notStore>>

\* The caller writes v through the &mut T that unwrap::<T> returned; the
\* stored value is changed in place.
WriteWrapped(o, T, v) ==
  /\ ~envDown
  /\ cell[o].st # "finalized"
  /\ UnwrapResult(cell[o], T).status = "Ok"
  /\ cell' = [cell EXCEPT ![o].object = Some(v)]
  /\ hist' = [hist EXCEPT ![o].val = v, ![o].written = TRUE]
  /\ last' = Call("write", o, T, OkView(v), cell[o])
  /\ UNCHANGED <<dtor, boxFree, extMem, inst, notStore>>

\* Env::drop_wrapped::<T>(js_object).
DropWrapped(o, T) ==
  /\ ~envDown
  /\ cell[o].st # "finalized"
  /\ cell' = [cell EXCEPT ![o] = DropWrappedCell(cell[o], T)]
  /\ dtor' = [dtor EXCEPT ![o] = @ + DropWrappedDtor(cell[o], T)]
  /\ hist' = IF DropWrappedResult(cell[o], T).status = "Ok"
             THEN [hist EXCEPT ![o].phase = "dropped"]
             ELSE hist
  /\ last' = Call("drop_wrapped", o, T, DropWrappedResult(cell[o], T), cell[o])
  /\ UNCHANGED <<boxFree, extMem, inst, notStore>>

\* Env::create_external(native_object, size_hint): napi_create_external with a
\* new TaggedObject, raw_finalize::<T> and a boxed size hint (status s1), then
\* napi_adjust_external_memory(changed) when a hint is given (status s2). A
\* failed adjustment leaves the accounting as it was.
CreateExternal(e, T, v, hint, s1, s2) ==
  /\ ~envDown
  /\ cell[e].st = "none"
  /\ cell' = IF s1 = "Ok" THEN [cell EXCEPT ![e] = TaggedObjectNew(T, v, HintBox(hint))]
             ELSE cell
  /\ extMem' = IF s1 = "Ok" /\ hint.some /\ s2 = "Ok" THEN extMem + hint.val ELSE extMem
  /\ LET res == IF s1 # "Ok" THEN Err(s1, "napi_create_external")
                ELSE IF hint.some /\ s2 # "Ok" THEN Err(s2, "napi_adjust_external_memory")
                ELSE OkUnit
     IN last' = [Call("create_external", e, T, res, cell[e])
                   EXCEPT !.unowned = CreateExternalUnowned(s1)]
  /\ UNCHANGED <<dtor, boxFree, inst, hist, notStore>>

\* Env::get_value_external::<T>(js_external).
GetValueExternal(e, T) ==
  /\ ~envDown
  /\ cell[e].st # "finalized"
  /\ last' = Call("get_value_external", e, T, GetValueExternalResult(cell[e], T), cell[e])
  /\ UNCHANGED <<cell, dtor, boxFree, extMem, inst, hist, notStore>>

\* The caller writes v through the &mut T that get_value_external::<T> returned.
WriteExternal(e, T, v) ==
  /\ ~envDown
  /\ cell[e].st # "finalized"
  /\ GetValueExternalResult(cell[e], T).status = "Ok"
  /\ cell' = [cell EXCEPT ![e].object = Some(v)]
  /\ last' = Call("write", e, T, OkView(v), cell[e])
  /\ UNCHANGED <<dtor, boxFree, extMem, inst, hist, notStore>>

\* A mutant of RawFinalizeDtor: the payload is destroyed whether or not it is
\* still there.
RawFinalizeDtorAlways(t) == 1

\* raw_finalize: Box::from_raw(tagged_object) is dropped, which destroys the
\* payload when the Option still holds it.
RawFinalizeDtor(t) == IF t.object.some THEN 1 ELSE 0

\* raw_finalize: with a non-null hint holding Some(changed), the accounting is
\* adjusted by -changed; the status s of the call is only debug-asserted, and
\* a failed adjustment leaves the accounting as it was.
RawFinalizeMem(t, mem, s) ==
  IF ~t.hint.null /\ t.hint.opt.some /\ s = "Ok" THEN mem - t.hint.opt.val ELSE mem

\* The host collects the value and runs the finalizer registered for it, once.
RawFinalize(c, s) ==
  /\ ~envDown
  /\ cell[c].st = "live"
  /\ cell' = [cell EXCEPT ![c] = GoneCell]
  /\ boxFree' = [boxFree EXCEPT ![c] = @ + 1]
  /\ dtor' = [dtor EXCEPT ![c] = @ + RawFinalizeDtor(cell[c])]
  /\ extMem' = RawFinalizeMem(cell[c], extMem, s)
  /\ hist' = IF c \in Objs THEN [hist EXCEPT ![c].phase = "finalized"] ELSE hist
  /\ last' = Call("finalize", c, cell[c].tag, OkUnit, cell[c])
  /\ UNCHANGED <<inst, notStore>>

\* The hint given to set_instance_data (one value of the caller's Hint type),
\* and the Box<Hint> the host keeps.
InstHints == {1}
InstanceHint(h) == [null |-> FALSE, opt |-> Some(h)]

\* Env::set_instance_data(native, hint, finalize_cb): napi_set_instance_data
\* with a new (TaggedObject, finalize_cb); the host overwrites its slot.
SetInstanceData(T, v, h, s) ==
  /\ ~envDown
  /\ inst' = IF s = "Ok" THEN TaggedObjectNew(T, v, InstanceHint(h)) ELSE inst
  /\ instSet' = IF s = "Ok" THEN InstSet(T, v, h) ELSE instSet
  /\ last' = Call("set_instance_data", "inst", T,
                  IF s = "Ok" THEN OkUnit ELSE Err(s, "napi_set_instance_data"), inst)
  /\ UNCHANGED <<cell, dtor, boxFree, extMem, hist, instRuns, envDown, notInst>>

\* Env::get_instance_data::<T>().
GetInstanceData(T) ==
  /\ ~envDown
  /\ last' = Call("get_instance_data", "inst", T, GetInstanceDataResult(inst, T), inst)
  /\ UNCHANGED <<cell, dtor, boxFree, extMem, inst, hist, instVars, notInst>>

\* A mutant of FinalizeContext: the hint is not the one read back.
FinalizeContextNoHint(t) == [value |-> t.object.val, hint |-> 0]

\* The FinalizeContext set_instance_finalize_callback hands to the callback:
\* value.object.unwrap() and the hint read back from its box.
FinalizeContext(t) == [value |-> t.object.val, hint |-> t.hint.opt.val]

\* The host tears the environment down: it runs the finalizer registered with
\* the instance data in its slot, set_instance_finalize_callback, which takes
\* the (TaggedObject, finalize_cb) and the hint out of their boxes and calls
\* the callback. No Env call is made afterwards.
InstanceTeardown ==
  /\ ~envDown
  /\ envDown' = TRUE
  /\ instRuns' = IF inst.st = "live" THEN Append(instRuns, FinalizeContext(inst))
                 ELSE instRuns
  /\ inst' = IF inst.st = "live" THEN [inst EXCEPT !.st = "finalized"] ELSE inst
  /\ last' = Call("instance_teardown", "inst", inst.tag, OkUnit, inst)
  /\ UNCHANGED <<cell, dtor, boxFree, extMem, hist, instSet, notInst>>

\* ------------------------------------------------------------------ buffers

Byte == {0, 255}
Lens == 0..MaxLen

\* A host buffer and the JsBufferValue returned for it. n is the buffer's
\* length and bytes its contents as the host sees them; viewLen is the length
\* of the Vec<u8> inside the returned value and shared says whether that Vec
\* points at the buffer's memory; stray is the capacity of a native allocation
\* the call made that neither the host nor a finalizer owns; hint is the
\* (length, capacity) box given to the host with drop_buffer; alloc is the
\* (length, capacity) of the Vec the caller handed over; released counts the
\* releases of that allocation, by names who released it and freedWith is the
\* (length, capacity) it was released with.
NoLenCap == <<0, 0>>

Buffer(kind, n, viewLen, shared, stray, hint) ==
  [kind |-> kind, st |-> "live", n |-> n, bytes |-> [i \in 1..n |-> 0],
   viewLen |-> viewLen, shared |-> shared, stray |-> stray, hint |-> hint,
   alloc |-> NoLenCap, released |-> 0, by |-> "nobody", freedWith |-> NoLenCap]

BufInit ==
  /\ bufs = <<>>
  /\ lastBuf = [op |-> "none", status |-> "Ok"]

\* Vec::with_capacity(length) allocates only for a length above zero.
WithCapacityAlloc(length) == IF length > 0 THEN length ELSE 0

\* Env::create_buffer: the host writes its data pointer into the local
\* data_ptr, and the value returned holds ManuallyDrop::new(data), the Vec made
\* by Vec::with_capacity(length): length 0, its own allocation, never dropped.
CreateBufferValue(length) ==
  Buffer("create_buffer", length, 0, FALSE, WithCapacityAlloc(length), NoLenCap)

\* Env::create_buffer(length); s is the status of napi_create_buffer.
CreateBuffer(length, s) ==
  /\ Len(bufs) < MaxBufs
  /\ bufs' = IF s = "Ok" THEN Append(bufs, CreateBufferValue(length)) ELSE bufs
  /\ lastBuf' = [op |-> "create_buffer", status |-> s]
  /\ UNCHANGED <<notBuf, extMem>>

\* Env::create_buffer_with_data / Env::create_arraybuffer_with_data: the host
\* buffer is backed by the Vec's allocation, with drop_buffer and a boxed
\* (length, capacity) as finalizer; no accounting call is made.
\* A mutant of FinalizeHint: the length is boxed in place of the capacity.
FinalizeHintLengthOnly(length, cap) == <<length, length>>

\* The finalize hint: Box::new((length, data.capacity())), with length read
\* from data.len() at the top of the function.
FinalizeHint(length, cap) == <<length, cap>>

WithDataValue(kind, length, cap) ==
  [Buffer(kind, length, length, TRUE, 0, FinalizeHint(length, cap))
     EXCEPT !.alloc = <<length, cap>>]

\* The call failed: check_status!(..)? returns early and the Vec, still owned
\* by the function, is dropped on the way out with its own length and
\* capacity; no host buffer exists and the finalizer is never run for it.
WithDataFailed(kind, length, cap) ==
  [WithDataValue(kind, length, cap)
     EXCEPT !.st = "failed", !.released = 1, !.by = "native",
            !.freedWith = <<length, cap>>]

\* Env::create_buffer_with_data(data); s is the status of
\* napi_create_external_buffer.
CreateBufferWithData(length, cap, s) ==
  /\ Len(bufs) < MaxBufs
  /\ bufs' = IF s = "Ok"
             THEN Append(bufs, WithDataValue("buffer_with_data", length, cap))
             ELSE Append(bufs, WithDataFailed("buffer_with_data", length, cap))
  /\ lastBuf' = [op |-> "create_buffer_with_data", status |-> s]
  /\ UNCHANGED <<notBuf, extMem>>

\* Env::create_arraybuffer_with_data(data); s is the status of
\* napi_create_external_arraybuffer.
CreateArraybufferWithData(length, cap, s) ==
  /\ Len(bufs) < MaxBufs
  /\ bufs' = IF s = "Ok"
             THEN Append(bufs, WithDataValue("arraybuffer_with_data", length, cap))
             ELSE Append(bufs, WithDataFailed("arraybuffer_with_data", length, cap))
  /\ lastBuf' = [op |-> "create_arraybuffer_with_data", status |-> s]
  /\ UNCHANGED <<notBuf, extMem>>

\* Env::create_buffer_copy(data_to_copy): the host copies the bytes into its
\* own memory and the view is Vec::from_raw_parts(copy_data, length, length).
CreateBufferCopy(length, s) ==
  /\ Len(bufs) < MaxBufs
  /\ bufs' = IF s = "Ok"
             THEN Append(bufs, Buffer("copy", length, length, TRUE, 0, NoLenCap))
             ELSE bufs
  /\ lastBuf' = [op |-> "create_buffer_copy", status |-> s]
  /\ UNCHANGED <<notBuf, extMem>>

\* The caller writes byte x at index i (from 0) through the returned view: the
\* index must be below the Vec's length, and the host buffer sees the write
\* when the Vec points at its memory.
WriteView(b, i, x) ==
  /\ bufs[b].st = "live"
  /\ i < bufs[b].viewLen
  /\ bufs' = IF bufs[b].shared THEN [bufs EXCEPT ![b].bytes[i + 1] = x] ELSE bufs
  /\ lastBuf' = [op |-> "write", status |-> "Ok"]
  /\ UNCHANGED <<notBuf, extMem>>

\* The change drop_buffer makes to the external-memory accounting: it makes no
\* boundary call (its env parameter is unused).
DropBufferMem(buf, mem) == mem

\* drop_buffer: the host collects a with-data buffer and runs its finalizer,
\* which reads (length, cap) back from the hint box and drops
\* Vec::from_raw_parts(finalize_data, length, cap).
DropBuffer(b) ==
  /\ bufs[b].st = "live"
  /\ bufs[b].kind \in {"buffer_with_data", "arraybuffer_with_data"}
  /\ bufs' = [bufs EXCEPT ![b].st = "finalized", ![b].released = @ + 1,
                           ![b].by = "finalizer", ![b].freedWith = bufs[b].hint]
  /\ extMem' = DropBufferMem(bufs[b], extMem)
  /\ lastBuf' = [op |-> "drop_buffer", status |-> "Ok"]
  /\ UNCHANGED notBuf

\* The host collects a buffer whose memory it owns.
CollectBuffer(b) ==
  /\ bufs[b].st = "live"
  /\ bufs[b].kind \in {"create_buffer", "copy"}
  /\ bufs' = [bufs EXCEPT ![b].st = "finalized"]
  /\ lastBuf' = [op |-> "collect", status |-> "Ok"]
  /\ UNCHANGED <<notBuf, extMem>>

BufNext ==
  \/ \E n \in Lens, s \in Statuses : CreateBuffer(n, s)
  \/ \E n \in Lens, s \in Statuses : \E cap \in n..MaxLen :
       CreateBufferWithData(n, cap, s)
  \/ \E n \in Lens, s \in Statuses : \E cap \in n..MaxLen :
       CreateArraybufferWithData(n, cap, s)
  \/ \E n \in Lens, s \in Statuses : CreateBufferCopy(n, s)
  \/ \E b \in 1..Len(bufs), i \in 0..(MaxLen - 1), x \in Byte :
       WriteView(b, i, x)
  \/ \E b \in 1..Len(bufs) : DropBuffer(b)
  \/ \E b \in 1..Len(bufs) : CollectBuffer(b)


StoreNext ==
  \/ \E o \in Objs, T \in TypeIds, v \in Val : Wrap(o, T, v)
  \/ \E o \in Objs, T \in TypeIds : Unwrap(o, T)
  \/ \E o \in Objs, T \in TypeIds, v \in Val : WriteWrapped(o, T, v)
  \/ \E o \in Objs, T \in TypeIds : DropWrapped(o, T)
  \/ \E e \in Exts, T \in TypeIds, v \in Val, h \in OptionOf(SizeHints), s1, s2 \in Statuses :
       CreateExternal(e, T, v, h, s1, s2)
  \/ \E e \in Exts, T \in TypeIds : GetValueExternal(e, T)
  \/ \E e \in Exts, T \in TypeIds, v \in Val : WriteExternal(e, T, v)
  \/ \E c \in Cells, s \in Statuses : RawFinalize(c, s)
  \/ \E T \in TypeIds, v \in Val, h \in InstHints, s \in Statuses :
       SetInstanceData(T, v, h, s)
  \/ \E T \in TypeIds : GetInstanceData(T)
  \/ InstanceTeardown

\* ------------------------------------------- the queue to the tokio runtime

Futures == 1..MaxFutures

TokioInit ==
  /\ tq = <<>>
  /\ tclosed = FALSE
  /\ tnext = 1
  /\ tprom = [f \in Futures |-> "none"]
  /\ tran = {}
  /\ tlast = [fut |-> 0, status |-> "none", reached |-> FALSE,
              preq |-> <<>>, preclosed |-> FALSE, postq |-> <<>>]

\* Sender::try_send on the bounded channel: Closed once the receiver is gone,
\* Full when the channel holds its capacity, else the message is queued.
TrySend(q, closed) ==
  IF closed THEN "Closed" ELSE IF Len(q) >= QueueCap THEN "Full" ELSE "Ok"

\* A mutant of MapTrySendError: the two errors are mapped the other way round.
MapTrySendErrorSwapped(e) ==
  IF e = "Full" THEN "Closing" ELSE IF e = "Closed" THEN "QueueFull" ELSE "Ok"

\* execute_tokio_future's map_err: TrySendError::Full becomes Status::QueueFull
\* and TrySendError::Closed becomes Status::Closing.
MapTrySendError(e) ==
  IF e = "Full" THEN "QueueFull" ELSE IF e = "Closed" THEN "Closing" ELSE "Ok"

\* Env::execute_tokio_future(fut, resolver): napi_create_promise (status s1),
\* FuturePromise::create (s2), future_promise.start() (s3), each returning its
\* error with `?`, then try_send of Message::Task on a clone of the sender.
ExecuteTokioFuture(s1, s2, s3) ==
  /\ tnext <= MaxFutures
  /\ LET reached == s1 = "Ok" /\ s2 = "Ok" /\ s3 = "Ok"
         e == TrySend(tq, tclosed)
         status == IF s1 # "Ok" THEN s1 ELSE IF s2 # "Ok" THEN s2
                   ELSE IF s3 # "Ok" THEN s3 ELSE MapTrySendError(e)
     IN /\ tq' = IF reached /\ e = "Ok" THEN Append(tq, tnext) ELSE tq
        /\ tprom' = IF s1 = "Ok" THEN [tprom EXCEPT ![tnext] = "pending"] ELSE tprom
        /\ tlast' = [fut |-> tnext, status |-> status, reached |-> reached,
                     preq |-> tq, preclosed |-> tclosed, postq |-> tq']
  /\ tnext' = tnext + 1
  /\ UNCHANGED <<tclosed, tran, notTokio>>

\* The runtime's thread receives the oldest message and runs its future, whose
\* result settles the promise on the host thread.
TokioRun ==
  /\ ~tclosed
  /\ tq # <<>>
  /\ tq' = Tail(tq)
  /\ tran' = tran \cup {Head(tq)}
  /\ tprom' = [tprom EXCEPT ![Head(tq)] = "settled"]
  /\ UNCHANGED <<tclosed, tnext, tlast, notTokio>>

\* The receiving end is torn down: the channel closes and the messages still
\* queued are dropped with it.
TokioTeardown ==
  /\ ~tclosed
  /\ tclosed' = TRUE
  /\ tq' = <<>>
  /\ UNCHANGED <<tnext, tprom, tran, tlast, notTokio>>

TokioNext ==
  \/ \E s1, s2, s3 \in Statuses : ExecuteTokioFuture(s1, s2, s3)
  \/ TokioRun
  \/ TokioTeardown

\* ------------------------------------------------ the threadsafe function

Producers == {"p1", "p2"}

TsfnInit ==
  /\ fmax = 0
  /\ fq = <<>>
  /\ fclosed = FALSE
  /\ sent = [p \in Producers |-> 0]
  /\ accepted = <<>>
  /\ rejected = {}
  /\ delivered = <<>>

\* Env::create_threadsafe_function(func, max_queue_size, callback): the queue
\* is created with the size the caller gives.
CreateThreadsafeFunction(max_queue_size) ==
  /\ fmax = 0
  /\ fmax' = max_queue_size
  /\ UNCHANGED <<fq, fclosed, sent, accepted, rejected, delivered, notTsfn>>

\* The status of an enqueue: Closing once the receiving end is torn down,
\* QueueFull when the queue holds max payloads, else the payload is queued.
TsfnCallStatus(q, closed, max) ==
  IF closed THEN "Closing" ELSE IF Len(q) >= max THEN "QueueFull" ELSE "Ok"

\* A producer thread enqueues its next payload without blocking.
TsfnCall(p) ==
  /\ fmax > 0
  /\ sent[p] < MaxSend
  /\ LET x == <<p, sent[p] + 1>>
         s == TsfnCallStatus(fq, fclosed, fmax)
     IN /\ fq' = IF s = "Ok" THEN Append(fq, x) ELSE fq
        /\ accepted' = IF s = "Ok" THEN Append(accepted, x) ELSE accepted
        /\ rejected' = IF s = "Ok" THEN rejected ELSE rejected \cup {x}
  /\ sent' = [sent EXCEPT ![p] = @ + 1]
  /\ UNCHANGED <<fmax, fclosed, delivered, notTsfn>>

\* A mutant of TsfnTake: the newest payload is taken first.
TsfnTakeNewest(q) == <<q[Len(q)], SubSeq(q, 1, Len(q) - 1)>>

\* The payload the host takes from the queue, and the queue it leaves: the
\* oldest first.
TsfnTake(q) == <<Head(q), Tail(q)>>

\* The host's thread takes a payload and calls the callback with it.
TsfnDeliver ==
  /\ fq # <<>>
  /\ delivered' = Append(delivered, TsfnTake(fq)[1])
  /\ fq' = TsfnTake(fq)[2]
  /\ UNCHANGED <<fmax, fclosed, sent, accepted, rejected, notTsfn>>

\* The host tears the receiving end down; what is still queued is dropped.
TsfnTeardown ==
  /\ fmax > 0
  /\ ~fclosed
  /\ fclosed' = TRUE
  /\ fq' = <<>>
  /\ UNCHANGED <<fmax, sent, accepted, rejected, delivered, notTsfn>>

TsfnNext ==
  \/ \E m \in 1..MaxQueue : CreateThreadsafeFunction(m)
  \/ \E p \in Producers : TsfnCall(p)
  \/ TsfnDeliver
  \/ TsfnTeardown

\* --------------------------------------------------------- thread-pool tasks

Tasks == 1..MaxTasks
Inputs == 0..MaxInput

\* Result<Output>.
OkOut(y) == [ok |-> TRUE, val |-> y, err |-> ""]
ErrOut(e) == [ok |-> FALSE, val |-> 0, err |-> e]

\* The task's compute, f: it fails on input 0.
Compute(x) == IF x = 0 THEN ErrOut("compute failed") ELSE OkOut(x + 1)
\* The task's resolve, g.
Resolve(y) == 10 * y

NoTask ==
  [st |-> "none", x |-> 0, out |-> ErrOut(""), computes |-> 0, resolves |-> 0,
   settles |-> 0, computedOn |-> "", resolvedOn |-> "",
   promise |-> [st |-> "none", val |-> 0, err |-> ""]]

TaskInit == task = [t \in Tasks |-> NoTask]

\* Env::spawn(task): async_work::run queues the task on the thread pool and
\* returns its promise; s is the status of the boundary calls it makes.
Spawn(t, x, s) ==
  /\ task[t].st = "none"
  /\ \A u \in Tasks : u < t => task[u].st # "none"
  /\ task' = IF s = "Ok"
             THEN [task EXCEPT ![t].st = "queued", ![t].x = x, ![t].promise.st = "pending"]
             ELSE task
  /\ UNCHANGED notTask

\* A worker thread of the pool takes the task and starts its compute.
WorkerStart(t) ==
  /\ task[t].st = "queued"
  /\ task' = [task EXCEPT ![t].st = "computing", ![t].computes = @ + 1,
                          ![t].computedOn = "worker"]
  /\ UNCHANGED notTask

\* The compute returns on the worker thread with its Result.
WorkerFinish(t) ==
  /\ task[t].st = "computing"
  /\ task' = [task EXCEPT ![t].st = "computed", ![t].out = Compute(task[t].x)]
  /\ UNCHANGED notTask

\* A mutant of Settle: the promise is fulfilled with the computed value, without
\* the resolve transform.
SettleUnresolved(out) ==
  IF out.ok THEN [st |-> "fulfilled", val |-> out.val, err |-> ""]
  ELSE [st |-> "rejected", val |-> 0, err |-> out.err]

\* The promise after completion: fulfilled with resolve's value of the output,
\* or rejected with compute's error.
Settle(out) ==
  IF out.ok THEN [st |-> "fulfilled", val |-> Resolve(out.val), err |-> ""]
  ELSE [st |-> "rejected", val |-> 0, err |-> out.err]

\* The pool completes the task: on the host's thread the result is resolved
\* and the promise settled.
HostComplete(t) ==
  /\ task[t].st = "computed"
  /\ task' = [task EXCEPT ![t].st = "settled",
                          ![t].resolves = @ + (IF task[t].out.ok THEN 1 ELSE 0),
                          ![t].resolvedOn = IF task[t].out.ok THEN "host" ELSE "",
                          ![t].settles = @ + 1,
                          ![t].promise = Settle(task[t].out)]
  /\ UNCHANGED notTask

TaskNext ==
  \/ \E t \in Tasks, x \in Inputs, s \in Statuses : Spawn(t, x, s)
  \/ \E t \in Tasks : WorkerStart(t)
  \/ \E t \in Tasks : WorkerFinish(t)
  \/ \E t \in Tasks : HostComplete(t)

\* ------------------------------------------------------------------ BigInts

WordBase == 2 ^ WordBits
Words == 0..(WordBase - 1)
\* The i128 and u128 of the scaled width: two words.
I128 == (0 - (WordBase * WordBase) \div 2)..((WordBase * WordBase) \div 2 - 1)
U128 == 0..(WordBase * WordBase - 1)

WordVecs == UNION {[1..n -> Words] : n \in 0..MaxWords}

NoBigint ==
  [op |-> "none", input |-> 0, sign |-> 0, words |-> <<>>, status |-> "Ok",
   value |-> 0, wordCount |-> 0]

BigInit == bigLast = NoBigint

\* napi_create_bigint_words: the host's BigInt is the magnitude the words
\* spell, least significant word first, negated when the sign bit is 1.
RECURSIVE Magnitude(_)
Magnitude(words) ==
  IF words = <<>> THEN 0 ELSE Head(words) + WordBase * Magnitude(Tail(words))

HostBigint(sign, words) ==
  IF sign = 1 THEN 0 - Magnitude(words) ELSE Magnitude(words)

\* `&value as *const i128 as *const u64` with word count 2: the two words of
\* the value's two's-complement bit pattern, least significant first.
RawWords(v) ==
  LET u == v % (WordBase * WordBase) IN <<u % WordBase, u \div WordBase>>

\* `if value > 0 { 0 } else { 1 }`
SignBitI128(v) == IF v > 0 THEN 0 ELSE 1

BigintCall(op, input, sign, words, s, count) ==
  [op |-> op, input |-> input, sign |-> sign, words |-> words, status |-> s,
   value |-> IF s = "Ok" THEN HostBigint(sign, words) ELSE 0,
   wordCount |-> count]

\* Env::create_bigint_from_i128(value); s is the status of
\* napi_create_bigint_words.
CreateBigintFromI128(v, s) ==
  /\ bigLast' = BigintCall("from_i128", v, SignBitI128(v), RawWords(v), s, 1)
  /\ UNCHANGED notBig

\* Env::create_bigint_from_u128(value)
CreateBigintFromU128(v, s) ==
  /\ bigLast' = BigintCall("from_u128", v, 0, RawWords(v), s, 1)
  /\ UNCHANGED notBig

\* Env::create_bigint_from_words(sign_bit, words)
CreateBigintFromWords(sign_bit, words, s) ==
  /\ bigLast' = BigintCall("from_words", 0, IF sign_bit THEN 1 ELSE 0, words, s,
                           Len(words))
  /\ UNCHANGED notBig

BigNext ==
  \/ \E v \in I128, s \in Statuses : CreateBigintFromI128(v, s)
  \/ \E v \in U128, s \in Statuses : CreateBigintFromU128(v, s)
  \/ \E sign_bit \in BOOLEAN, words \in WordVecs, s \in Statuses :
       CreateBigintFromWords(sign_bit, words, s)

\* --------------------------------------------------------------- references

\* The runtime types of the host values referenced, and the typed handles T
\* a caller resolves a reference to.
ValueTypes == {"Object", "String"}

\* `let initial_ref_count = 1;` and the `count: 1` of the Ref returned.
InitialRefCount == 1
NewRefCount == 1

NoHandle == [as |-> "none", actual |-> "none"]
NoRefCall ==
  [op |-> "none", r |-> 0, T |-> "Object", res |-> OkUnit, handle |-> NoHandle,
   use |-> "none", pre |-> <<>>]

RefInit ==
  /\ refs = <<>>
  /\ refLast = NoRefCall

\* Env::create_reference(value): vt is the runtime type of value and s the
\* status of napi_create_reference.
CreateReference(vt, s) ==
  /\ Len(refs) < MaxRefs
  /\ refs' = IF s = "Ok"
             THEN Append(refs, [vtype |-> vt, hostCount |-> InitialRefCount,
                                count |-> NewRefCount])
             ELSE refs
  /\ refLast' = [NoRefCall EXCEPT !.op = "create_reference",
                                  !.r = IF s = "Ok" THEN Len(refs) + 1 ELSE 0,
                                  !.T = vt,
                                  !.res = IF s = "Ok" THEN OkUnit ELSE Err(s, "napi")]
  /\ UNCHANGED notRef

\* T::from_raw: validates the runtime type of the value against T.
FromRaw(T, vt) ==
  IF T = vt THEN OkUnit ELSE Err("InvalidArg", "type mismatch")

\* T::from_raw_unchecked: no validation.
FromRawUnchecked(T, vt) == OkUnit

\* A mutant of GetReferenceValueResult: the value is not validated.
GetReferenceValueNoTypeCheck(T, vt, s) ==
  IF s # "Ok" THEN Err(s, "napi") ELSE FromRawUnchecked(T, vt)

\* The result of Env::get_reference_value::<T> on a reference to a value of
\* runtime type vt; s is the status of napi_get_reference_value.
GetReferenceValueResult(T, vt, s) ==
  IF s # "Ok" THEN Err(s, "napi") ELSE FromRaw(T, vt)

GetReferenceValueUncheckedResult(T, vt, s) ==
  IF s # "Ok" THEN Err(s, "napi") ELSE FromRawUnchecked(T, vt)

RefCall(op, r, T, res) ==
  [NoRefCall EXCEPT !.op = op, !.r = r, !.T = T, !.res = res,
                    !.handle = IF res.status = "Ok"
                               THEN [as |-> T, actual |-> refs[r].vtype]
                               ELSE NoHandle,
                    !.pre = refs]

\* Env::get_reference_value::<T>(&reference)
GetReferenceValue(r, T, s) ==
  /\ refLast' = RefCall("get_reference_value", r, T,
                        GetReferenceValueResult(T, refs[r].vtype, s))
  /\ UNCHANGED <<refs, notRef>>

\* Env::get_reference_value_unchecked::<T>(&reference)
GetReferenceValueUnchecked(r, T, s) ==
  /\ refLast' = RefCall("get_reference_value_unchecked", r, T,
                        GetReferenceValueUncheckedResult(T, refs[r].vtype, s))
  /\ UNCHANGED <<refs, notRef>>

\* The first typed use of the handle the last resolution returned: a method of
\* T on a value that is not a T fails with InvalidArg.
TypedUse ==
  /\ refLast.handle # NoHandle
  /\ refLast.use = "none"
  /\ refLast' = [refLast EXCEPT !.use = IF refLast.handle.as = refLast.handle.actual
                                        THEN "Ok" ELSE "InvalidArg"]
  /\ UNCHANGED <<refs, notRef>>

RefNext ==
  \/ \E vt \in ValueTypes, s \in Statuses : CreateReference(vt, s)
  \/ \E r \in 1..Len(refs), T \in ValueTypes, s \in Statuses :
       GetReferenceValue(r, T, s)
  \/ \E r \in 1..Len(refs), T \in ValueTypes, s \in Statuses :
       GetReferenceValueUnchecked(r, T, s)
  \/ TypedUse

\* ------------------------------------------------------------ cleanup hooks

HookInit ==
  /\ hooks = <<>>
  /\ hooksDown = FALSE
  /\ hookLast = [op |-> "none", h |-> 0, status |-> "Ok"]

\* The CleanupEnvHookData { data, hook } that add_env_cleanup_hook boxes and
\* leaks: st is "registered", "failed" (the host refused the registration),
\* "removed" or "ran"; allocated says whether the box still exists; runs
\* counts the calls of the hook and arg is the data it was called with.
CleanupEnvHookData(d, s) ==
  [st |-> IF s = "Ok" THEN "registered" ELSE "failed", data |-> d,
   allocated |-> TRUE, runs |-> 0, arg |-> None]

\* Env::add_env_cleanup_hook(cleanup_data, cleanup_fn); s is the status of
\* napi_add_env_cleanup_hook. On failure `?` returns the error and the leaked
\* box is left as it is.
AddEnvCleanupHook(d, s) ==
  /\ ~hooksDown
  /\ Len(hooks) < MaxHooks
  /\ hooks' = Append(hooks, CleanupEnvHookData(d, s))
  /\ hookLast' = [op |-> "add_env_cleanup_hook", h |-> Len(hooks) + 1, status |-> s]
  /\ UNCHANGED <<hooksDown, notHook>>

\* Env::remove_env_cleanup_hook(hook); s is the status of
\* napi_remove_env_cleanup_hook, the only call made.
RemoveEnvCleanupHook(h, s) ==
  /\ ~hooksDown
  /\ hooks[h].st = "registered"
  /\ hooks' = IF s = "Ok" THEN [hooks EXCEPT ![h].st = "removed"] ELSE hooks
  /\ hookLast' = [op |-> "remove_env_cleanup_hook", h |-> h, status |-> s]
  /\ UNCHANGED <<hooksDown, notHook>>

\* The host begins the teardown of the environment.
HookTeardown ==
  /\ ~hooksDown
  /\ hooksDown' = TRUE
  /\ hookLast' = [op |-> "teardown", h |-> 0, status |-> "Ok"]
  /\ UNCHANGED <<hooks, notHook>>

\* cleanup_env::<T>(hook_data), called by the host at teardown for a hook still
\* registered: Box::from_raw takes the box back, the hook is called with the
\* data, and the box is dropped.
CleanupEnv(h) ==
  /\ hooksDown
  /\ hooks[h].st = "registered"
  /\ hooks' = [hooks EXCEPT ![h].st = "ran", ![h].runs = @ + 1,
                            ![h].arg = Some(hooks[h].data),
                            ![h].allocated = FALSE]
  /\ hookLast' = [op |-> "cleanup_env", h |-> h, status |-> "Ok"]
  /\ UNCHANGED <<hooksDown, notHook>>

HookNext ==
  \/ \E d \in Val, s \in Statuses : AddEnvCleanupHook(d, s)
  \/ \E h \in 1..Len(hooks), s \in Statuses : RemoveEnvCleanupHook(h, s)
  \/ HookTeardown
  \/ \E h \in 1..Len(hooks) : CleanupEnv(h)

\* ------------------------------- strings, symbols, fatal exceptions, scopes

NoSymCall ==
  [op |-> "none", calls |-> <<>>, status |-> "Ok", value |-> "none"]
NoFatalCall == [op |-> "none", debug |-> FALSE, hostCalls |-> 0, panicked |-> FALSE]
NoScopeCall ==
  [op |-> "none", ran |-> FALSE, closes |-> 0, exec |-> OkUnit, close |-> "Ok",
   res |-> OkUnit, depth |-> 0]

CallInit ==
  /\ symLast = NoSymCall
  /\ fatalLast = NoFatalCall
  /\ scopes = 0
  /\ stack = <<>>
  /\ scopeCalls = 0
  /\ closeFails = 0
  /\ scopeLast = NoScopeCall

\* Env::create_string(s): napi_create_string_utf8 (status s1), returned with
\* `?`. calls lists the statuses of the boundary calls made, in order.
CreateString(s1) ==
  /\ symLast' = [op |-> "create_string", calls |-> <<s1>>, status |-> s1,
                 value |-> IF s1 = "Ok" THEN "string" ELSE "none"]
  /\ UNCHANGED <<fatalLast, scopeVars, notCall>>

\* The description handle create_symbol passes to napi_create_symbol:
\* description.and_then(|desc| self.create_string(desc).ok()) with
\* unwrap_or(ptr::null_mut()).
SymbolDescription(description, s1) ==
  IF description.some /\ s1 = "Ok" THEN "string" ELSE "null"

\* Env::create_symbol(description): create_string for a description that is
\* given (status s1), then napi_create_symbol (status s2), returned with `?`.
CreateSymbol(description, s1, s2) ==
  /\ ~description.some => s1 = "Ok"
  /\ symLast' = [op |-> "create_symbol",
                 calls |-> IF description.some THEN <<s1, s2>> ELSE <<s2>>,
                 status |-> s2,
                 value |-> IF s2 # "Ok" THEN "none"
                           ELSE IF SymbolDescription(description, s1) = "null"
                                THEN "symbol without description"
                                ELSE "symbol with description"]
  /\ UNCHANGED <<fatalLast, scopeVars, notCall>>

\* Env::fatal_exception(err): the call of napi_fatal_exception is the argument
\* of debug_assert!, which is evaluated only in a build with debug assertions
\* (debug_assertions says which build this is; s is the status the boundary
\* call returns when it is made, and the assertion panics on a failure).
FatalException(debug_assertions, s) ==
  /\ ~debug_assertions => s = "Ok"
  /\ fatalLast' = [op |-> "fatal_exception", debug |-> debug_assertions,
                   hostCalls |-> IF debug_assertions THEN 1 ELSE 0,
                   panicked |-> debug_assertions /\ s # "Ok"]
  /\ UNCHANGED <<symLast, scopeVars, notCall>>

\* What an executor returns: Ok(v) or an error of its own.
ExecResults == {OkView(v) : v \in Val} \cup {Err("GenericFailure", "executor")}

\* napi_close_handle_scope: a successful call closes the scope; a failed one
\* leaves the host as it was.
NapiCloseHandleScope(n, s) == IF s = "Ok" THEN n - 1 ELSE n

\* A mutant of RunInScopeResult: the status of the close is dropped.
RunInScopeResultIgnoringClose(r, s) == r

\* `check_status!(close)?; result`
RunInScopeResult(r, s) ==
  IF s # "Ok" THEN Err(s, "napi_close_handle_scope") ELSE r

\* Env::run_in_scope(executor), first half: napi_open_handle_scope (status
\* s). On failure the call returns the error at once; on success the executor
\* starts, and may itself call run_in_scope.
RunInScopeOpen(s) ==
  /\ scopeCalls < MaxCalls
  /\ Len(stack) < MaxDepth
  /\ scopeCalls' = scopeCalls + 1
  /\ scopes' = IF s = "Ok" THEN scopes + 1 ELSE scopes
  /\ stack' = IF s = "Ok" THEN Append(stack, scopes) ELSE stack
  /\ scopeLast' = IF s = "Ok" THEN scopeLast
                  ELSE [NoScopeCall EXCEPT !.op = "returned",
                                           !.res = Err(s, "napi_open_handle_scope"),
                                           !.depth = Len(stack) + 1]
  /\ UNCHANGED <<closeFails, symLast, fatalLast, notCall>>

\* Env::run_in_scope, second half: the innermost running executor returns r,
\* napi_close_handle_scope is called (status s) and the call returns.
RunInScopeClose(r, s) ==
  /\ stack # <<>>
  /\ scopes' = NapiCloseHandleScope(scopes, s)
  /\ closeFails' = IF s = "Ok" THEN closeFails ELSE closeFails + 1
  /\ stack' = SubSeq(stack, 1, Len(stack) - 1)
  /\ scopeLast' = [op |-> "returned", ran |-> TRUE, closes |-> 1, exec |-> r,
                   close |-> s, res |-> RunInScopeResult(r, s),
                   depth |-> Len(stack)]
  /\ UNCHANGED <<scopeCalls, symLast, fatalLast, notCall>>

CallNext ==
  \/ \E s1 \in Statuses : CreateString(s1)
  \/ \E description \in OptionOf({0}), s1, s2 \in Statuses :
       CreateSymbol(description, s1, s2)
  \/ \E debug_assertions \in BOOLEAN, s \in Statuses :
       FatalException(debug_assertions, s)
  \/ \E s \in Statuses : RunInScopeOpen(s)
  \/ \E r \in ExecResults, s \in Statuses : RunInScopeClose(r, s)

vars == <<storeVars, bufVars, asyncVars, laterVars>>

Init == StoreInit /\ BufInit /\ TokioInit /\ TsfnInit /\ TaskInit /\ BigInit /\ RefInit
        /\ HookInit /\ CallInit

Next == StoreNext

\* The tagged object store under every interleaving of its callers and the host.
Spec == Init /\ [][Next]_vars

NextBuffer == BufNext

\* The buffer constructors, the callers' writes and the host's collections.
SpecBuffer == Init /\ [][NextBuffer]_vars

NextTokio == TokioNext

\* Futures submitted to the tokio runtime through its bounded queue.
SpecTokio == Init /\ [][NextTokio]_vars

NextTsfn == TsfnNext

\* Producer threads and the host's thread on one threadsafe function.
SpecTsfn == Init /\ [][NextTsfn]_vars

NextBig == BigNext

\* The BigInt constructors over every input of the scaled width.
SpecBig == Init /\ [][NextBig]_vars

NextRef == RefNext

\* References to host values, created and resolved checked and unchecked.
SpecRef == Init /\ [][NextRef]_vars

NextHook == HookNext

\* Cleanup hooks added, removed and run by the host at teardown.
SpecHook == Init /\ [][NextHook]_vars

NextCall == CallNext

\* Strings and symbols, fatal exceptions and handle scopes.
SpecCall == Init /\ [][NextCall]_vars

NextTask == TaskNext

\* Tasks spawned on the thread pool, its workers and the host's thread.
SpecTask == Init /\ [][NextTask]_vars

\* ------------------------------------------- claims on the tagged object store

TagCheckedOps == {"unwrap", "drop_wrapped", "get_value_external", "get_instance_data"}

\* The TaggedObject a call named in `last` was made on, as it is now.
Now(c) == IF c \in Cells THEN cell[c] ELSE inst

\* C1: after wrap(o, v) succeeded, and until drop_wrapped succeeds on o or the
\* host finalizes o, unwrap::<T>(o) succeeds and yields the stored value: the
\* wrapped v, or what the callers last wrote through a returned view. Every
\* unwrap made in that period returned it.
C1_UnwrapReturnsWrapped ==
  /\ \A o \in Objs :
       hist[o].phase = "held" => UnwrapResult(cell[o], hist[o].tag) = OkView(hist[o].val)
  /\ (last.op = "unwrap" /\ last.c \in Objs) =>
       (hist[last.c].phase = "held" /\ last.T = hist[last.c].tag
          => last.res = OkView(hist[last.c].val))

\* C1, witness: an unwrap that returned the value a caller had written through
\* an earlier view.
C1_Witness ==
  /\ last.op = "unwrap"
  /\ last.c \in Objs
  /\ hist[last.c].phase = "held"
  /\ hist[last.c].written
  /\ last.res.status = "Ok"

\* C2: on a TaggedObject stored with tag T, unwrap::<U>, drop_wrapped::<U>,
\* get_value_external::<U> and get_instance_data::<U> with U # T return
\* InvalidArg and no view, and leave the payload as it was, present or cleared.
C2_TagMismatchRejected ==
  /\ \A o \in Objs, U \in TypeIds :
       (cell[o].st = "live" /\ U # cell[o].tag) =>
         /\ UnwrapResult(cell[o], U).status = "InvalidArg"
         /\ ~UnwrapResult(cell[o], U).view.some
         /\ DropWrappedResult(cell[o], U).status = "InvalidArg"
         /\ DropWrappedCell(cell[o], U) = cell[o]
         /\ DropWrappedDtor(cell[o], U) = 0
  /\ \A e \in Exts, U \in TypeIds :
       (cell[e].st = "live" /\ U # cell[e].tag) =>
         /\ GetValueExternalResult(cell[e], U).status = "InvalidArg"
         /\ ~GetValueExternalResult(cell[e], U).view.some
  /\ \A U \in TypeIds :
       (inst.st = "live" /\ U # inst.tag) =>
         /\ GetInstanceDataResult(inst, U).status = "InvalidArg"
         /\ ~GetInstanceDataResult(inst, U).view.some
  /\ (last.op \in TagCheckedOps /\ last.pre.st = "live" /\ last.T # last.pre.tag) =>
       /\ last.res.status = "InvalidArg"
       /\ ~last.res.view.some
       /\ Now(last.c) = last.pre

\* C2, witness: a drop_wrapped::<U> made on an object that holds a T.
C2_Witness ==
  /\ last.op = "drop_wrapped"
  /\ last.pre.st = "live"
  /\ last.pre.object.some
  /\ last.T # last.pre.tag

\* C3: once drop_wrapped::<T>(o) has succeeded, and until the host finalizes
\* o, the payload stays cleared: unwrap::<T>(o) fails with InvalidArg (nothing
\* attached), and another drop_wrapped::<T>(o) succeeds and changes nothing.
C3_DroppedStaysCleared ==
  /\ \A o \in Objs :
       hist[o].phase = "dropped" =>
         /\ cell[o].st = "live"
         /\ ~cell[o].object.some
         /\ UnwrapResult(cell[o], hist[o].tag)
              = Err("InvalidArg", "nothing attach to js_object")
         /\ DropWrappedResult(cell[o], hist[o].tag) = OkUnit
         /\ DropWrappedCell(cell[o], hist[o].tag) = cell[o]
         /\ DropWrappedDtor(cell[o], hist[o].tag) = 0
  /\ (last.op \in {"unwrap", "write"} /\ last.c \in Objs) =>
       (hist[last.c].phase = "dropped" => last.res.status = "InvalidArg")

\* C3, witness: an unwrap::<T> made after drop_wrapped::<T> succeeded.
C3_Witness ==
  /\ last.op = "unwrap"
  /\ last.c \in Objs
  /\ hist[last.c].phase = "dropped"
  /\ last.T = hist[last.c].tag
  /\ last.res.status = "InvalidArg"

\* C4: for a wrapped value or a created external, the native value's
\* destructor has run once exactly when the payload is gone (cleared by the
\* first successful drop_wrapped, or destroyed by the finalizer), never twice;
\* the TaggedObject allocation is freed by the finalizer only, once.
C4_DestroyedOnce ==
  \A c \in Cells :
    /\ cell[c].st = "none" => (dtor[c] = 0 /\ boxFree[c] = 0)
    /\ cell[c].st = "live" =>
         (boxFree[c] = 0 /\ dtor[c] = (IF cell[c].object.some THEN 0 ELSE 1))
    /\ cell[c].st = "finalized" => (boxFree[c] = 1 /\ dtor[c] = 1)
    /\ (c \in Objs /\ hist[c].phase = "dropped") => dtor[c] = 1

\* C4, witness: the host finalized an object whose payload drop_wrapped had
\* cleared.
C4_Witness ==
  /\ last.op = "finalize"
  /\ last.c \in Objs
  /\ ~last.pre.object.some
  /\ cell[last.c].st = "finalized"
  /\ dtor[last.c] = 1

\* The size hints of the externals that exist in the host and are not finalized.
RECURSIVE HintSum(_)
HintSum(S) ==
  IF S = {} THEN 0
  ELSE LET e == CHOOSE x \in S : TRUE
           h == IF cell[e].st = "live" /\ ~cell[e].hint.null /\ cell[e].hint.opt.some
                THEN cell[e].hint.opt.val ELSE 0
       IN h + HintSum(S \ {e})

\* C5: the net external-memory accounting equals the sum of the size hints of
\* the externals that exist and are not finalized, whatever the boundary calls
\* returned.
C5_AccountingBalanced == extMem = HintSum(Exts)

\* ------------------------------------------------------- claims on buffers

WithDataKinds == {"buffer_with_data", "arraybuffer_with_data"}

\* The bytes of the live buffers made by the with-data constructors.
RECURSIVE WithDataBytes(_)
WithDataBytes(b) ==
  IF b = 0 THEN 0
  ELSE (IF bufs[b].st = "live" /\ bufs[b].kind \in WithDataKinds THEN bufs[b].n ELSE 0)
       + WithDataBytes(b - 1)

\* C6: a buffer made by create_buffer_with_data or create_arraybuffer_with_data
\* from N bytes adds N to the host's external-memory accounting, and drop_buffer
\* takes N off again: the accounting equals the bytes of the live with-data
\* buffers.
C6_WithDataAccounted == extMem = WithDataBytes(Len(bufs))

\* C10: create_buffer(N) returns a view of length N that is the host buffer's
\* memory, and leaves no native allocation of its own behind.
C10_CreateBufferViewIsHostMemory ==
  \A b \in 1..Len(bufs) :
    bufs[b].kind = "create_buffer" =>
      /\ bufs[b].viewLen = bufs[b].n
      /\ bufs[b].n > 0 => bufs[b].shared
      /\ bufs[b].stray = 0

\* ----------------------------------------------------- claims on the queues

\* C7: the queue to the runtime never holds more than its capacity, and an
\* execute_tokio_future call that gets as far as the enqueue returns Closing
\* when the receiving end is torn down, QueueFull when the queue holds its
\* capacity, and otherwise queues exactly one Task message and returns the
\* promise; a failed enqueue leaves the queue as it was.
C7_EnqueueFailsFast ==
  /\ Len(tq) <= QueueCap
  /\ tlast.status = "QueueFull" =>
       (Len(tlast.preq) = QueueCap /\ ~tlast.preclosed /\ tlast.postq = tlast.preq)
  /\ tlast.status = "Closing" => (tlast.preclosed /\ tlast.postq = tlast.preq)
  /\ tlast.status = "Ok" =>
       (Len(tlast.preq) < QueueCap /\ ~tlast.preclosed
          /\ tlast.postq = Append(tlast.preq, tlast.fut))
  /\ tlast.reached =>
       tlast.status = (IF tlast.preclosed THEN "Closing"
                       ELSE IF Len(tlast.preq) >= QueueCap THEN "QueueFull" ELSE "Ok")
  /\ (tlast.status \notin {"none", "Ok"}) => tlast.postq = tlast.preq

\* C7, witness: a submission refused with QueueFull on a queue at capacity.
C7_Witness ==
  /\ tlast.status = "QueueFull"
  /\ Len(tq) = QueueCap

IsPrefix(a, b) == Len(a) <= Len(b) /\ SubSeq(b, 1, Len(a)) = a

\* C8: on one threadsafe queue, under any interleaving of the producers, the
\* payloads reach the host callback in the order in which their enqueues
\* succeeded, each at most once, and a payload whose enqueue failed with
\* QueueFull or Closing never reaches it.
C8_DeliveredInEnqueueOrder ==
  /\ IsPrefix(delivered, accepted)
  /\ \A i, j \in 1..Len(delivered) : i # j => delivered[i] # delivered[j]
  /\ \A i \in 1..Len(delivered) : delivered[i] \notin rejected
  /\ ~fclosed => accepted = delivered \o fq
  /\ Len(fq) <= fmax

\* C8, witness: payloads of both producers were delivered and one was refused.
C8_Witness ==
  /\ Len(delivered) >= 2
  /\ \E i, j \in 1..Len(delivered) : delivered[i][1] # delivered[j][1]
  /\ rejected # {}

\* C9: compute runs once, on a worker; resolve runs at most once, on the
\* host's thread and after compute; the promise is settled once, after compute,
\* fulfilled with g(f(x)) when compute succeeded and rejected with compute's
\* error when it failed.
C9_ComputeThenResolve ==
  \A t \in Tasks :
    /\ task[t].computes <= 1 /\ task[t].resolves <= 1 /\ task[t].settles <= 1
    /\ task[t].computes = 1 => task[t].computedOn = "worker"
    /\ task[t].resolves = 1 => (task[t].computes = 1 /\ task[t].resolvedOn = "host")
    /\ task[t].st \in {"none", "queued", "computing", "computed"} =>
         (task[t].settles = 0 /\ task[t].resolves = 0
            /\ task[t].promise.st \in {"none", "pending"})
    /\ task[t].st \in {"none", "queued"} => task[t].computes = 0
    /\ task[t].st \in {"computing", "computed", "settled"} => task[t].computes = 1
    /\ task[t].st \in {"computed", "settled"} => task[t].out = Compute(task[t].x)
    /\ task[t].st = "settled" =>
         /\ task[t].settles = 1
         /\ Compute(task[t].x).ok =>
              (task[t].promise = [st |-> "fulfilled",
                                  val |-> Resolve(Compute(task[t].x).val), err |-> ""]
                 /\ task[t].resolves = 1)
         /\ ~Compute(task[t].x).ok =>
              (task[t].promise = [st |-> "rejected", val |-> 0,
                                  err |-> Compute(task[t].x).err]
                 /\ task[t].resolves = 0)

\* C9, witness: one task fulfilled and another rejected.
C9_Witness ==
  \E t, u \in Tasks :
    /\ task[t].promise.st = "fulfilled"
    /\ task[t].promise.val = Resolve(Compute(task[t].x).val)
    /\ task[u].promise.st = "rejected"

\* C11: the allocation handed to create_buffer_with_data is released exactly
\* once and with the (length, capacity) it was allocated with: not at all while
\* the host buffer is live, by the host's finalizer alone once the buffer is
\* collected, with the (length, capacity) read back from the hint registered
\* at creation, and by the native side alone when creation failed.
C11_ReleasedOnceWithRecordedLayout ==
  \A b \in 1..Len(bufs) :
    bufs[b].kind = "buffer_with_data" =>
      /\ bufs[b].st = "live" => bufs[b].released = 0 /\ bufs[b].by = "nobody"
      /\ bufs[b].st = "finalized" =>
            /\ bufs[b].released = 1
            /\ bufs[b].by = "finalizer"
            /\ bufs[b].hint = bufs[b].alloc
            /\ bufs[b].freedWith = bufs[b].alloc
      /\ bufs[b].st = "failed" =>
            /\ bufs[b].released = 1
            /\ bufs[b].by = "native"
            /\ bufs[b].freedWith = bufs[b].alloc

C11_Witness ==
  \E b \in 1..Len(bufs) :
    /\ bufs[b].kind = "buffer_with_data"
    /\ bufs[b].st = "finalized"
    /\ bufs[b].alloc[2] > bufs[b].alloc[1]
    /\ bufs[b].alloc[1] > 0
    /\ bufs[b].freedWith = bufs[b].alloc

\* ------------------------------------------------------- claims on BigInts

\* C12: the host BigInt made by create_bigint_from_i128(v) and by
\* create_bigint_from_u128(v) equals v, and the one made by
\* create_bigint_from_words(sign, words) equals the magnitude the words spell,
\* negated when sign is true (zero for empty or all-zero words).
C12_BigintValueExact ==
  bigLast.status = "Ok" =>
    /\ bigLast.op \in {"from_i128", "from_u128"} => bigLast.value = bigLast.input
    /\ bigLast.op = "from_words" =>
          bigLast.value = (IF bigLast.sign = 1 THEN 0 - Magnitude(bigLast.words)
                           ELSE Magnitude(bigLast.words))

\* ---------------------------------------------------- claims on references

\* C13: a Ref made by create_reference has count 1, the count registered with
\* the host; resolving it to a T the value is not fails with InvalidArg in
\* get_reference_value, while get_reference_value_unchecked succeeds and the
\* mismatch shows as InvalidArg at the first typed use of the handle; neither
\* resolution changes a count.
C13_RefCountAndTypeCheck ==
  /\ \A r \in 1..Len(refs) :
        refs[r].count = 1 /\ refs[r].count = refs[r].hostCount
  /\ refLast.op \in {"get_reference_value", "get_reference_value_unchecked"} =>
        refLast.pre = refs
  /\ (refLast.op = "get_reference_value" /\ refLast.res.reason # "napi") =>
        (refLast.res.status = "Ok" <=> refLast.T = refs[refLast.r].vtype)
        /\ refLast.res.status \in {"Ok", "InvalidArg"}
  /\ (refLast.op = "get_reference_value_unchecked" /\ refLast.res.reason # "napi") =>
        /\ refLast.res.status = "Ok"
        /\ refLast.use # "none" =>
              (refLast.use = "InvalidArg" <=> refLast.T # refs[refLast.r].vtype)

C13_Witness ==
  /\ refLast.op = "get_reference_value_unchecked"
  /\ refLast.res.status = "Ok"
  /\ refLast.T # refs[refLast.r].vtype
  /\ refLast.use = "InvalidArg"
  /\ refs[refLast.r].count = 1

\* ------------------------------------------------- claims on instance data

\* C14: get_instance_data returns None before any set and, for the type of
\* the latest set, that set's value; no finalize callback runs before the
\* teardown, so none runs when a set overwrites another; at the teardown the
\* callback of the latest set alone runs, once, with that set's value and hint.
C14_LastSetWinsAndFinalizesOnce ==
  /\ last.op = "get_instance_data" =>
        /\ ~instSet.some => last.res = OkUnit
        /\ (instSet.some /\ last.T = instSet.tag) => last.res = OkView(instSet.val)
  /\ ~envDown => instRuns = <<>>
  /\ envDown =>
        instRuns = IF instSet.some
                   THEN <<[value |-> instSet.val, hint |-> instSet.hint]>>
                   ELSE <<>>

C14_Witness ==
  /\ envDown
  /\ last.op = "instance_teardown"
  /\ instSet.some
  /\ instSet.val = 1
  /\ instRuns = <<[value |-> 1, hint |-> instSet.hint]>>

\* ------------------------------------------------ claims on failed creation

\* C18: wrap and create_external leave no allocation of theirs without an
\* owner, whether the boundary call succeeds or fails: when napi_wrap or
\* napi_create_external fails, the TaggedObject (with the native value in it)
\* and the size-hint box made for the call are released.
C18_NoLeakOnFailure ==
  last.op \in {"wrap", "create_external"} => last.unowned = 0

\* C20: when execute_tokio_future fails with QueueFull or Closing, the future
\* is never run and the promise, the deferred and the started callback handle
\* the call created do not stay alive in the host.
C20_FailedSubmitLeavesNothing ==
  tlast.status \in {"QueueFull", "Closing"} =>
    /\ tlast.fut \notin tran
    /\ tprom[tlast.fut] = "none"

\* ------------------------------------------------- claims on cleanup hooks

\* C15: a cleanup hook runs at most once, only at teardown and with the data
\* it was registered with; a removed hook never runs; and the data of a
\* removed hook, or of one whose registration failed, does not stay allocated
\* for ever: it is released by the time the environment is torn down.
C15_HooksRunOnceAndDataReleased ==
  \A h \in 1..Len(hooks) :
    /\ hooks[h].runs <= 1
    /\ hooks[h].runs = 1 => hooksDown /\ hooks[h].arg = Some(hooks[h].data)
    /\ hooks[h].st \in {"removed", "failed"} =>
          /\ hooks[h].runs = 0
          /\ hooksDown => ~hooks[h].allocated

\* --------------------------- claims on errors, fatal exceptions and scopes

\* C16: no silent recovery: when any boundary call an operation makes returns
\* a non-success status, the operation returns an error and no value; so
\* create_symbol(Some(description)) fails when the description string cannot
\* be created, and never returns a symbol without description.
C16_NoSilentRecovery ==
  (\E i \in 1..Len(symLast.calls) : symLast.calls[i] # "Ok") =>
    /\ symLast.status # "Ok"
    /\ symLast.value = "none"

\* C17: every call of fatal_exception makes the napi_fatal_exception boundary
\* call exactly once, whether or not the build has debug assertions.
C17_FatalExceptionCallsHost ==
  fatalLast.op = "fatal_exception" => fatalLast.hostCalls = 1

\* C19 as claimed: the executor runs only after a successful open, the scope
\* is closed once after it returns, the result is the executor's when the
\* close succeeds and the close error when it fails, and once every
\* run_in_scope call has returned no scope is left open.
C19_ScopesBalancedAlways ==
  /\ scopeLast.op = "returned" =>
        /\ scopeLast.ran <=> scopeLast.res.reason # "napi_open_handle_scope"
        /\ scopeLast.ran => scopeLast.closes = 1
        /\ (scopeLast.ran /\ scopeLast.close = "Ok") => scopeLast.res = scopeLast.exec
        /\ (scopeLast.ran /\ scopeLast.close # "Ok") =>
              scopeLast.res = Err(scopeLast.close, "napi_close_handle_scope")
  /\ stack = <<>> => scopes = 0

\* C19, amended: as above, but the scopes left open once every call has
\* returned are those whose close failed; none is left when every close
\* succeeded.
C19_ScopesBalancedUnlessCloseFails ==
  /\ scopeLast.op = "returned" =>
        /\ scopeLast.ran <=> scopeLast.res.reason # "napi_open_handle_scope"
        /\ scopeLast.ran => scopeLast.closes = 1
        /\ (scopeLast.ran /\ scopeLast.close = "Ok") => scopeLast.res = scopeLast.exec
        /\ (scopeLast.ran /\ scopeLast.close # "Ok") =>
              scopeLast.res = Err(scopeLast.close, "napi_close_handle_scope")
  /\ scopes = Len(stack) + closeFails
  /\ (stack = <<>> /\ closeFails = 0) => scopes = 0

C19_Witness ==
  /\ Len(stack) = 1
  /\ scopeLast.op = "returned"
  /\ scopeLast.depth = 2
  /\ scopeLast.ran
  /\ scopeLast.close = "Ok"
  /\ scopeLast.exec.status # "Ok"
  /\ scopeLast.res = scopeLast.exec
  /\ closeFails = 0
  /\ scopes = 1

====
